---- MODULE Spec2Model ----
(***************************************************************************)
(* Model of the Go authentication server (main.go): the in-memory user     *)
(* table guarded by a sync.RWMutex, the cookie-backed session store and    *)
(* the register / login / logout / profile / change-password handlers,     *)
(* run by concurrent handler goroutines.                                   *)
(***************************************************************************)
EXTENDS Integers, Sequences, FiniteSets, TLC

\* ---------------------------------------------------------------- bounds
NumProcs == 2          \* concurrent handler goroutines
NumIDs == 2            \* identifiers generateID can return
MaxRegistrations == 3  \* registrations stored when identifiers can repeat
MaxLen == 4            \* bytes of an input of the base64 encoder
MaxMessages == 3       \* messages the browser shows
MaxInstances == 2      \* AuthManager instances App creates
MaxIntervals == 3      \* interval timers the browser holds

\* ------------------------------------------------------- program constants
MinPasswordLen == 6
BcryptCost == 14
DefaultCost == 10
SessionMaxAge == 2592000
StatusOK == 200
StatusCreated == 201
StatusBadRequest == 400
StatusUnauthorized == 401
StatusNotFound == 404
StatusConflict == 409

\* ---------------------------------------------------------- input domains
Procs == 1..NumProcs
IDNames == <<"id1", "id2", "id3", "id4">>
IDs == {IDNames[i] : i \in 1..NumIDs}
Usernames == {"", "alice", "bob"}
Emails == {"", "a@x.com", "b@x.com"}
Passwords == {"", "abc", "secret1", "secret9"}
\* passwords submitted at registration, and at login or as current password
RegisterPasswords == {"", "abc", "secret1"}
LoginPasswords == {"", "secret1", "secret9"}
\* new passwords of the password-change specification: one more valid value
NewPasswords == {"", "abc", "secret1", "secret5", "secret9"}

VARIABLES variant, users, now, mutex, pc, req, last, issued, logins, plain,
          observe, loggedOut, changed, enc, mm, am

\* observe, loggedOut, changed, logins and plain are history variables: no
\* handler reads them.  observe names the histories a specification records.
vars == <<variant, users, now, mutex, pc, req, last, issued, logins, plain,
          observe, loggedOut, changed, enc, mm, am>>

\* enc is the state of the base64util.Encoder runs, mm the browser's
\* MessageManager and am its AuthManager instances; the server's handlers
\* do not touch them
clientVars == <<enc, mm, am>>

\* ------------------------------------------------------------- data types
\* type User: one record of the s.users map
User(id, username, email, password, created) ==
    [ID |-> id, Username |-> username, Email |-> email,
     Password |-> password, Created |-> created]

UserJSONWithPassword(u) ==
    [kind |-> "user", id |-> u.ID, username |-> u.Username,
     email |-> u.Email, password |-> u.Password, created |-> u.Created]

\* json encoding of a *User: the Password field is tagged json:"-"
UserJSON(u) ==
    [kind |-> "user", id |-> u.ID, username |-> u.Username,
     email |-> u.Email, created |-> u.Created]

NoData == [kind |-> "none"]

\* type Response, written with json.NewEncoder(w).Encode
Response(status, success, message, data) ==
    [status |-> status, envelope |-> TRUE, success |-> success,
     message |-> message, data |-> data]

\* http.Error: a text/plain body holding the message; a client decoding it
\* into Response gets the zero value of Success
HttpError(message, status) ==
    [status |-> status, envelope |-> FALSE, success |-> FALSE,
     message |-> message, data |-> NoData]

NoResponse == [status |-> 0, envelope |-> FALSE, success |-> FALSE,
               message |-> "", data |-> NoData]

\* the request's "user-session" cookie: absent, or the values the store signed
NoCookie == [kind |-> "none"]
SessionCookie(userID) == [kind |-> "session", user_id |-> userID]

\* the Set-Cookie header written by session.Save: the signed values and the
\* Max-Age of session.Options
SetCookie(userID, maxAge) ==
    [kind |-> "session", user_id |-> userID, maxAge |-> maxAge]

NoRequest == [op |-> "none"]

\* ---------------------------------------------------------------- helpers
\* bcrypt.GenerateFromPassword(password, cost): version, cost and digest; the
\* salt is left out
GenerateFromPassword(password, cost) ==
    "$2a$" \o (IF cost = BcryptCost THEN "14" ELSE "10") \o "$" \o password

\* bcrypt.CompareHashAndPassword: hash the password again with the cost read
\* from the hash, and compare
CompareHashAndPassword(hash, password) ==
    \E cost \in {BcryptCost, DefaultCost} :
        hash = GenerateFromPassword(password, cost)

hashPassword(password) == GenerateFromPassword(password, BcryptCost)

checkPasswordInverted(password, hash) == ~CompareHashAndPassword(hash, password)

checkPassword(password, hash) == CompareHashAndPassword(hash, password)

SessionUserIDUnverified(cookie) ==
    IF cookie.kind \in {"session", "forged"}
    THEN [ok |-> TRUE, userID |-> cookie.user_id]
    ELSE [ok |-> FALSE, userID |-> ""]

\* sessions.Get and session.Values["user_id"].(string): the value and whether
\* it is a string; a cookie that fails the signature check yields a new
\* session without values
SessionUserID(cookie) ==
    IF cookie.kind = "session"
    THEN [ok |-> TRUE, userID |-> cookie.user_id]
    ELSE [ok |-> FALSE, userID |-> ""]

\* a cookie value that fails the store's signature check, made up to name
\* a user: sessions.Get returns a new, empty session and an error
ForgedCookie == [kind |-> "forged", user_id |-> "id1"]

\* a session signed with the same key by an earlier run of the server: the
\* key is a literal, the table is in memory only, so its user is not in
\* this run's table
StaleCookie == SessionCookie("id0")

\* cookies a request can carry: none, a forged one, a stale one, or any value
\* the store has signed
Cookies == {NoCookie, ForgedCookie, StaleCookie} \cup issued

Records == {users[i] : i \in DOMAIN users}

\* the response a handler has just written, until the client has read it
NoLast == [req |-> NoRequest, resp |-> NoResponse, cookie |-> NoCookie]

\* goroutine p is not serving a request, and no response is in transit
Free(p) == pc[p] = "idle" /\ last = NoLast

\* sync.RWMutex
LockFreeNoMutex == TRUE

\* Lock() is granted when no goroutine holds the write lock.  A read section
\* (RLock .. deferred RUnlock) changes no shared state and is one step of
\* its handler, so no read section is open between steps.
LockFree == mutex.writer = 0
Lock(p) == [mutex EXCEPT !.writer = p]
UnlockForgotten == mutex

\* the deferred s.mutex.Unlock()
Unlock == [mutex EXCEPT !.writer = 0]

\* RLock() is granted when no goroutine holds the write lock
RLockFree == mutex.writer = 0

\* handler p, serving request r, writes response rsp and returns; one
\* response is in transit at a time
Respond(p, r, rsp, cookie) ==
    /\ last = NoLast
    /\ last' = [req |-> r, resp |-> rsp, cookie |-> cookie]
    /\ pc' = [pc EXCEPT ![p] = "idle"]
    /\ req' = [req EXCEPT ![p] = NoRequest]

ReturnClearingSession(p, r, rsp) == Respond(p, r, rsp, SetCookie("", -1))

\* the same, with no Set-Cookie header
Return(p, r, rsp) ==
    /\ last = NoLast
    /\ last' = [req |-> r, resp |-> rsp, cookie |-> NoCookie]
    /\ pc' = [pc EXCEPT ![p] = "idle"]
    /\ req' = [req EXCEPT ![p] = NoRequest]

\* handler p moves on to step at, serving request r
Goto(p, at, r) ==
    /\ last = NoLast
    /\ last' = last
    /\ pc' = [pc EXCEPT ![p] = at]
    /\ req' = [req EXCEPT ![p] = r]

\* ------------------------------------------------------------------- Init
\* the components outside the server, not started
NoEncoder == [op |-> "none"]
NoMessages == [id |-> 0]
NoAuthManager == [instances |-> 0]
ClientIdle == enc = NoEncoder /\ mm = NoMessages /\ am = NoAuthManager

\* NewServer
Init ==
    /\ ClientIdle
    /\ variant = "Server"
    /\ plain = <<>>
    /\ users = <<>>
    /\ now = 1
    /\ mutex = [writer |-> 0]
    /\ pc = [p \in Procs |-> "idle"]
    /\ req = [p \in Procs |-> NoRequest]
    /\ last = NoLast
    /\ issued = {}
    /\ logins = {}
    /\ observe = {}
    /\ loggedOut = {}
    /\ changed = <<>>

\* ------------------------------------------------------- registerHandler
RegisterInvalidNoLength(r) ==
    r.Username = "" \/ r.Email = "" \/ r.Password = ""

RegisterInvalid(r) ==
    \/ r.Username = "" \/ r.Email = "" \/ r.Password = ""
    \/ Len(r.Password) < MinPasswordLen

RegisterValidationError(r) ==
    IF r.Username = "" \/ r.Email = "" \/ r.Password = ""
    THEN HttpError("Username, email, and password are required", StatusBadRequest)
    ELSE HttpError("Password must be at least 6 characters long", StatusBadRequest)

\* records at which the range loop over s.users can return
RegisterConflicts(r) ==
    {u \in Records : u.Username = r.Username \/ u.Email = r.Email}

\* the response of the loop body at record u
RegisterConflictError(r, u) ==
    IF u.Username = r.Username
    THEN HttpError("Username already exists", StatusConflict)
    ELSE HttpError("Email already exists", StatusConflict)

\* decode and validate; then s.mutex.Lock() and the range loop: the map is
\* visited in an unspecified order and the loop returns at the first record
\* with the same username or the same email (deferred Unlock). The steps
\* before the lock touch the request only, so they are taken with it.
RegisterStart(p, username, email, password) ==
    LET r == [op |-> "register", Username |-> username, Email |-> email,
              Password |-> password]
    IN /\ Free(p)
       /\ IF RegisterInvalid(r)
          THEN /\ Return(p, r, RegisterValidationError(r))
               /\ mutex' = mutex
          ELSE /\ LockFree
               /\ IF RegisterConflicts(r) # {}
                  THEN /\ \E u \in RegisterConflicts(r) :
                              Return(p, r, RegisterConflictError(r, u))
                       /\ mutex' = mutex
                  ELSE /\ Goto(p, "reg_hash", r)
                       /\ mutex' = Lock(p)
       /\ UNCHANGED <<clientVars, variant, observe, loggedOut, changed, users, now, issued, logins, plain>>

\* s.users[user.ID] = user
InsertUser(id, u) ==
    [i \in DOMAIN users \cup {id} |-> IF i = id THEN u ELSE users[i]]

\* history: a login that succeeded, the user_id of the session it saved and
\* the user it answered with
LoginRecord(userID, u) == [user_id |-> userID, user |-> UserJSON(u)]

\* history: the password last accepted for the record stored under id
SetPlain(id, password) ==
    [i \in DOMAIN plain \cup {id} |-> IF i = id THEN password ELSE plain[i]]

RegisterResponseWholeUser(status, user) ==
    Response(status, TRUE,
             "User registered successfully. Please login with your credentials.",
             UserJSON(user))

\* the registration response: the username only
RegisterResponse(status, user) ==
    Response(status, TRUE,
             "User registered successfully. Please login with your credentials.",
             [kind |-> "username", username |-> user.Username])

\* hashPassword with the lock held, create the user under the generated id,
\* respond, deferred Unlock
RegisterCreate(p, id) ==
    /\ pc[p] = "reg_hash"
    /\ users' = InsertUser(id, User(id, req[p].Username, req[p].Email,
                                    hashPassword(req[p].Password), now))
    /\ plain' = SetPlain(id, req[p].Password)
    /\ now' = now + 1
    /\ mutex' = Unlock
    /\ Return(p, req[p], RegisterResponse(StatusCreated, users'[id]))
    /\ UNCHANGED <<clientVars, variant, observe, loggedOut, changed, issued, logins>>

generateIDRepeating == IDs

\* generateID: 16 bytes of crypto/rand, 128 bits: an identifier that is not
\* in the table yet
generateID == IDs \ DOMAIN users

\* ----------------------------------------------------------- loginHandler
LoginInvalidUsernameOnly(r) == r.Username = ""

LoginInvalid(r) == r.Username = "" \/ r.Password = ""

LoginNotFoundErrorDistinct == HttpError("User not found", StatusNotFound)

\* the response when no record has the username
LoginNotFoundError == HttpError("Invalid username or password", StatusUnauthorized)

\* the response when the password does not match the hash
LoginPasswordError == HttpError("Invalid username or password", StatusUnauthorized)

\* records at which the range loop over s.users can break with user = u
FindByUsername(username) == {u \in Records : u.Username = username}

LoginSessionIDUsername(u) == u.Username

\* session.Values["user_id"] = user.ID
LoginSessionID(u) == u.ID

LoginMaxAgeAfterLogout ==
    IF SessionCookie("") \in issued THEN -1 ELSE SessionMaxAge

\* sessions.Get gives each session its own copy of the store's Options
LoginMaxAge == SessionMaxAge

LoginAsKeepingSession(p, r, u) ==
    LET s == SessionUserID(r.cookie)
        id == IF s.ok /\ s.userID # "" THEN s.userID ELSE LoginSessionID(u)
    IN IF ~checkPassword(r.Password, u.Password)
       THEN /\ Return(p, r, LoginPasswordError)
            /\ UNCHANGED <<issued, logins>>
       ELSE /\ issued' = issued \cup {SessionCookie(id)}
            /\ logins' = logins \cup {LoginRecord(id, u)}
            /\ Respond(p, r,
                       Response(StatusOK, TRUE, "Login successful", UserJSON(u)),
                       SetCookie(id, LoginMaxAge))

\* the login of record u: verify, save the session, respond
LoginAs(p, r, u) ==
    IF ~checkPassword(r.Password, u.Password)
    THEN /\ Return(p, r, LoginPasswordError)
         /\ UNCHANGED <<issued, logins>>
    ELSE /\ issued' = issued \cup {SessionCookie(LoginSessionID(u))}
         /\ logins' = logins \cup {LoginRecord(LoginSessionID(u), u)}
         /\ Respond(p, r,
                    Response(StatusOK, TRUE, "Login successful", UserJSON(u)),
                    SetCookie(LoginSessionID(u), LoginMaxAge))

\* decode and validate; then, between RLock and the deferred RUnlock, find
\* the user, check the password, create the session
Login(p, cookie, username, password) ==
    LET r == [op |-> "login", cookie |-> cookie, Username |-> username,
              Password |-> password]
    IN /\ Free(p)
       /\ IF LoginInvalid(r)
          THEN /\ Return(p, r, HttpError("Username and password are required",
                                         StatusBadRequest))
               /\ UNCHANGED <<issued, logins>>
          ELSE /\ RLockFree
               /\ IF FindByUsername(username) = {}
                  THEN /\ Return(p, r, LoginNotFoundError)
                       /\ UNCHANGED <<issued, logins>>
                  ELSE \E u \in FindByUsername(username) : LoginAs(p, r, u)
       /\ UNCHANGED <<clientVars, variant, observe, loggedOut, changed, users, now, mutex, plain>>

\* whether loginHandler, run on table tbl, accepts the credentials
LogsIn(tbl, username, password) ==
    \E i \in DOMAIN tbl :
        tbl[i].Username = username /\ checkPassword(password, tbl[i].Password)

\* ---------------------------------------------------------- logoutHandler
\* history: the sessions of this run's users that a logout request presented
LoggedOut(cookie) ==
    IF /\ "logout" \in observe
       /\ cookie.kind = "session" /\ cookie.user_id \in DOMAIN users
    THEN loggedOut \cup {cookie}
    ELSE loggedOut

LogoutCookieExpiryOnly(cookie) == SetCookie(SessionUserID(cookie).userID, -1)

\* session.Values["user_id"] = "", session.Options.MaxAge = -1, Save
LogoutCookie(cookie) == SetCookie("", -1)

LogoutResponseNeedsSession(cookie) ==
    IF ~SessionUserID(cookie).ok \/ SessionUserID(cookie).userID = ""
    THEN HttpError("Not authenticated", StatusUnauthorized)
    ELSE Response(StatusOK, TRUE, "Logout successful", NoData)

\* the response of logoutHandler, whatever session the request carries
LogoutResponse(cookie) == Response(StatusOK, TRUE, "Logout successful", NoData)

LogoutDeletingUser(p, cookie) ==
    /\ Free(p)
    /\ issued' = issued \cup {SessionCookie("")}
    /\ loggedOut' = LoggedOut(cookie)
    /\ users' = [i \in DOMAIN users \ {SessionUserID(cookie).userID} |-> users[i]]
    /\ Respond(p, [op |-> "logout", cookie |-> cookie],
               LogoutResponse(cookie), LogoutCookie(cookie))
    /\ UNCHANGED <<clientVars, variant, observe, changed, now, mutex, logins, plain>>

\* user_id = "", MaxAge = -1, Save; no lock is taken
Logout(p, cookie) ==
    /\ Free(p)
    /\ issued' = issued \cup {SessionCookie("")}
    /\ loggedOut' = LoggedOut(cookie)
    /\ Respond(p, [op |-> "logout", cookie |-> cookie],
               LogoutResponse(cookie), LogoutCookie(cookie))
    /\ UNCHANGED <<clientVars, variant, observe, changed, users, now, mutex, logins, plain>>

\* --------------------------------------------------------- profileHandler
UserNotFoundErrorUnauthorized == HttpError("Not authenticated", StatusUnauthorized)

\* the response when s.users has no record under the session's user_id
UserNotFoundError == HttpError("User not found", StatusNotFound)

UnauthenticatedNoSessionOnly(cookie) == ~SessionUserID(cookie).ok

\* !ok || userID == ""
Unauthenticated(cookie) ==
    ~SessionUserID(cookie).ok \/ SessionUserID(cookie).userID = ""

\* the data profileHandler answers with on table tbl: the record stored
\* under the session's user_id, or none
ProfileOf(tbl, cookie) ==
    IF ~Unauthenticated(cookie) /\ SessionUserID(cookie).userID \in DOMAIN tbl
    THEN UserJSON(tbl[SessionUserID(cookie).userID])
    ELSE NoData

\* read the session; then, between RLock and the deferred RUnlock,
\* s.users[userID] and the response
Profile(p, cookie) ==
    LET r == [op |-> "profile", cookie |-> cookie]
        userID == SessionUserID(cookie).userID
    IN /\ Free(p)
       /\ IF Unauthenticated(cookie)
          THEN Return(p, r, HttpError("Not authenticated", StatusUnauthorized))
          ELSE /\ RLockFree
               /\ IF userID \notin DOMAIN users
                  THEN Return(p, r, UserNotFoundError)
                  ELSE Return(p, r,
                              Response(StatusOK, TRUE,
                                       "Profile retrieved successfully",
                                       UserJSON(users[userID])))
       /\ UNCHANGED <<clientVars, variant, observe, loggedOut, changed, users, now, mutex, issued, logins, plain>>

\* -------------------------------------------------- changePasswordHandler
ChangePasswordInvalidNoLength(r) ==
    r.CurrentPassword = "" \/ r.NewPassword = ""

ChangePasswordInvalid(r) ==
    \/ r.CurrentPassword = "" \/ r.NewPassword = ""
    \/ Len(r.NewPassword) < MinPasswordLen

ChangePasswordValidationError(r) ==
    IF r.CurrentPassword = "" \/ r.NewPassword = ""
    THEN HttpError("Current password and new password are required", StatusBadRequest)
    ELSE HttpError("New password must be at least 6 characters long", StatusBadRequest)

CurrentPasswordOKUnchecked(r, u) == TRUE

\* checkPassword(req.CurrentPassword, user.Password)
CurrentPasswordOK(r, u) == checkPassword(r.CurrentPassword, u.Password)

\* read the session, decode and validate; then s.mutex.Lock(), get the user
\* and verify the current password (deferred Unlock)
ChangePasswordStart(p, cookie, currentPassword, newPassword) ==
    LET r == [op |-> "change-password", cookie |-> cookie,
              CurrentPassword |-> currentPassword, NewPassword |-> newPassword]
        userID == SessionUserID(cookie).userID
    IN /\ Free(p)
       /\ IF Unauthenticated(cookie)
          THEN /\ Return(p, r, HttpError("Not authenticated", StatusUnauthorized))
               /\ mutex' = mutex
          ELSE IF ChangePasswordInvalid(r)
          THEN /\ Return(p, r, ChangePasswordValidationError(r))
               /\ mutex' = mutex
          ELSE /\ LockFree
               /\ IF userID \notin DOMAIN users
                  THEN /\ Return(p, r, UserNotFoundError)
                       /\ mutex' = mutex
                  ELSE IF ~CurrentPasswordOK(r, users[userID])
                  THEN /\ Return(p, r, HttpError("Current password is incorrect",
                                                 StatusUnauthorized))
                       /\ mutex' = mutex
                  ELSE /\ Goto(p, "cp_hash", r)
                       /\ mutex' = Lock(p)
       /\ UNCHANGED <<clientVars, variant, observe, loggedOut, changed, users, now, issued, logins, plain>>

NewPasswordHashOfCurrent(r) == hashPassword(r.CurrentPassword)

\* hashPassword(req.NewPassword)
NewPasswordHash(r) == hashPassword(r.NewPassword)

UpdatePasswordNewRecord(id, hash) ==
    [users EXCEPT ![id] = User(id, users[id].Username, users[id].Email,
                               hash, now)]

UpdatePasswordAll(id, hash) ==
    [i \in DOMAIN users |-> [users[i] EXCEPT !.Password = hash]]

\* user.Password = hashedPassword, through the pointer held by the map
UpdatePassword(id, hash) == [users EXCEPT ![id].Password = hash]

ChangePasswordCookieCleared == SetCookie("", -1)

\* the handler does not save the session: the response sets no cookie
ChangePasswordCookie == NoCookie

\* history: the last successful password change of each user
SetChanged(id, r) ==
    IF "change" \in observe
    THEN [i \in DOMAIN changed \cup {id} |->
            IF i = id THEN [old |-> r.CurrentPassword, new |-> r.NewPassword]
            ELSE changed[i]]
    ELSE changed

\* hashPassword with the lock held, user.Password = hashedPassword, respond,
\* deferred Unlock
ChangePasswordUpdate(p) ==
    LET userID == SessionUserID(req[p].cookie).userID
    IN /\ pc[p] = "cp_hash"
       /\ users' = UpdatePassword(userID, NewPasswordHash(req[p]))
       /\ plain' = SetPlain(userID, req[p].NewPassword)
       /\ changed' = SetChanged(userID, req[p])
       /\ mutex' = Unlock
       /\ Respond(p, req[p],
                  Response(StatusOK, TRUE, "Password changed successfully", NoData),
                  ChangePasswordCookie)
       /\ UNCHANGED <<clientVars, variant, observe, loggedOut, now, issued, logins>>

\* ---------------------------------------------------------- healthHandler
\* len(s.users) is read without the lock: the count before or after any
\* insertion that runs at the same time
Health(p) ==
    /\ Free(p)
    /\ Return(p, [op |-> "health"],
              Response(StatusOK, TRUE, "Server is healthy",
                       [kind |-> "health", timestamp |-> now,
                        users |-> Cardinality(DOMAIN users)]))
    /\ UNCHANGED <<clientVars, variant, observe, loggedOut, changed, users, now, mutex, issued, logins, plain>>

\* ------------------------------------------- AuthHandler (auth.go) variant
\* NewAuthHandler
InitAuth ==
    /\ ClientIdle
    /\ variant = "AuthHandler"
    /\ plain = <<>>
    /\ users = <<>>
    /\ now = 1
    /\ mutex = [writer |-> 0]
    /\ pc = [p \in Procs |-> "idle"]
    /\ req = [p \in Procs |-> NoRequest]
    /\ last = NoLast
    /\ issued = {}
    /\ logins = {}
    /\ observe = {}
    /\ loggedOut = {}
    /\ changed = <<>>

AuthRegisterInvalid(r) == r.Username = "" \/ r.Email = "" \/ r.Password = ""

\* the response of the loop body at record u
AuthRegisterConflictError(r, u) ==
    IF u.Username = r.Username
    THEN Response(StatusConflict, FALSE, "Username already exists", NoData)
    ELSE Response(StatusConflict, FALSE, "Email already exists", NoData)

\* AuthHandler.RegisterHandler: decode, validate and the range loop over
\* h.users; no lock is taken
AuthRegisterStart(p, username, email, password) ==
    LET r == [op |-> "register", Username |-> username, Email |-> email,
              Password |-> password]
    IN /\ Free(p)
       /\ IF AuthRegisterInvalid(r)
          THEN Return(p, r, Response(StatusBadRequest, FALSE,
                             "Username, email, and password are required", NoData))
          ELSE IF RegisterConflicts(r) # {}
          THEN \E u \in RegisterConflicts(r) :
                  Return(p, r, AuthRegisterConflictError(r, u))
          ELSE Goto(p, "auth_reg_hash", r)
       /\ UNCHANGED <<clientVars, variant, observe, loggedOut, changed, users, now, mutex, issued, logins, plain>>

\* AuthHandler.RegisterHandler: hash with bcrypt.DefaultCost, insert, respond
\* (no WriteHeader: the status is 200)
AuthRegisterCreate(p, id) ==
    /\ pc[p] = "auth_reg_hash"
    /\ users' = InsertUser(id, User(id, req[p].Username, req[p].Email,
                       GenerateFromPassword(req[p].Password, DefaultCost), now))
    /\ plain' = SetPlain(id, req[p].Password)
    /\ now' = now + 1
    /\ Return(p, req[p], RegisterResponse(StatusOK, users'[id]))
    /\ UNCHANGED <<clientVars, variant, observe, loggedOut, changed, mutex, issued, logins>>

\* the login of record u: verify, save the session, respond
AuthLoginAs(p, r, u) ==
    IF ~CompareHashAndPassword(u.Password, r.Password)
    THEN /\ Return(p, r, Response(StatusUnauthorized, FALSE,
                                  "Invalid credentials", NoData))
         /\ UNCHANGED <<issued, logins>>
    ELSE /\ issued' = issued \cup {SessionCookie(u.ID)}
         /\ logins' = logins \cup {LoginRecord(u.ID, u)}
         /\ Respond(p, r, Response(StatusOK, TRUE, "Login successful", UserJSON(u)),
                    SetCookie(u.ID, LoginMaxAge))

\* AuthHandler.LoginHandler: decode, find the user, compare, save the
\* session; no validation and no lock
AuthLogin(p, cookie, username, password) ==
    LET r == [op |-> "login", cookie |-> cookie, Username |-> username,
              Password |-> password]
    IN /\ Free(p)
       /\ IF FindByUsername(username) = {}
          THEN /\ Return(p, r, Response(StatusUnauthorized, FALSE,
                                        "Invalid credentials", NoData))
               /\ UNCHANGED <<issued, logins>>
          ELSE \E u \in FindByUsername(username) : AuthLoginAs(p, r, u)
       /\ UNCHANGED <<clientVars, variant, observe, loggedOut, changed, users, now, mutex, plain>>

\* AuthHandler.LogoutHandler: user_id = "", MaxAge = -1, Save
AuthLogout(p, cookie) ==
    /\ Free(p)
    /\ issued' = issued \cup {SessionCookie("")}
    /\ Respond(p, [op |-> "logout", cookie |-> cookie],
               Response(StatusOK, TRUE, "Logged out successfully", NoData),
               LogoutCookie(cookie))
    /\ loggedOut' = LoggedOut(cookie)
    /\ UNCHANGED <<clientVars, variant, observe, changed, users, now, mutex, logins, plain>>

\* AuthHandler.ProfileHandler: the session (an undecodable cookie is
\* refused), then h.users[userID]; no lock
AuthProfile(p, cookie) ==
    LET r == [op |-> "profile", cookie |-> cookie]
        userID == SessionUserID(cookie).userID
    IN /\ Free(p)
       /\ IF cookie = ForgedCookie \/ Unauthenticated(cookie)
          THEN Return(p, r, HttpError("Unauthorized", StatusUnauthorized))
          ELSE IF userID \notin DOMAIN users
          THEN Return(p, r, HttpError("User not found", StatusNotFound))
          ELSE Return(p, r, Response(StatusOK, TRUE,
                                     "Profile retrieved successfully",
                                     UserJSON(users[userID])))
       /\ UNCHANGED <<clientVars, variant, observe, loggedOut, changed, users, now, mutex, issued, logins, plain>>

\* AuthHandler.ChangePasswordHandler: the session, decode and validate, find
\* the user and compare the current password; no lock
AuthChangePasswordStart(p, cookie, currentPassword, newPassword) ==
    LET r == [op |-> "change-password", cookie |-> cookie,
              CurrentPassword |-> currentPassword, NewPassword |-> newPassword]
        userID == SessionUserID(cookie).userID
    IN /\ Free(p)
       /\ IF cookie = ForgedCookie \/ Unauthenticated(cookie)
          THEN Return(p, r, HttpError("Unauthorized", StatusUnauthorized))
          ELSE IF currentPassword = "" \/ newPassword = ""
          THEN Return(p, r, HttpError("Current and new password are required",
                                      StatusBadRequest))
          ELSE IF Len(newPassword) < MinPasswordLen
          THEN Return(p, r, HttpError("New password must be at least 6 characters",
                                      StatusBadRequest))
          ELSE IF userID \notin DOMAIN users
          THEN Return(p, r, HttpError("User not found", StatusNotFound))
          ELSE IF ~CompareHashAndPassword(users[userID].Password, currentPassword)
          THEN Return(p, r, HttpError("Invalid current password",
                                      StatusUnauthorized))
          ELSE Goto(p, "auth_cp_hash", r)
       /\ UNCHANGED <<clientVars, variant, observe, loggedOut, changed, users, now, mutex,
                      issued, logins, plain>>

\* AuthHandler.ChangePasswordHandler: hash with bcrypt.DefaultCost,
\* user.Password = hash, h.users[userID] = user, respond
AuthChangePasswordUpdate(p) ==
    LET userID == SessionUserID(req[p].cookie).userID
    IN /\ pc[p] = "auth_cp_hash"
       /\ users' = [users EXCEPT ![userID].Password =
                       GenerateFromPassword(req[p].NewPassword, DefaultCost)]
       /\ plain' = SetPlain(userID, req[p].NewPassword)
       /\ changed' = SetChanged(userID, req[p])
       /\ Return(p, req[p],
                 Response(StatusOK, TRUE, "Password changed successfully", NoData))
       /\ UNCHANGED <<clientVars, variant, observe, loggedOut, now, mutex, issued, logins>>

\* ------------------------------------------------------------ the client
\* the client reads the response
Deliver ==
    /\ last # NoLast
    /\ last' = NoLast
    /\ UNCHANGED <<clientVars, variant, observe, loggedOut, changed, users, now, mutex, pc, req, issued, logins, plain>>

\* ------------------------------------------------------------------- Next
Next ==
    \/ \E p \in Procs, u \in Usernames, e \in Emails, pw \in RegisterPasswords :
          RegisterStart(p, u, e, pw)
    \/ \E p \in Procs, id \in generateID : RegisterCreate(p, id)
    \/ \E p \in Procs, c \in Cookies, u \in Usernames, pw \in LoginPasswords :
          Login(p, c, u, pw)
    \/ \E p \in Procs, c \in Cookies : Logout(p, c)
    \/ \E p \in Procs, c \in Cookies : Profile(p, c)
    \/ \E p \in Procs, c \in Cookies, cur \in LoginPasswords, new \in Passwords :
          ChangePasswordStart(p, c, cur, new)
    \/ \E p \in Procs : ChangePasswordUpdate(p)
    \/ \E p \in Procs : Health(p)
    \/ Deliver

NextAuth ==
    \/ \E p \in Procs, u \in Usernames, e \in Emails, pw \in RegisterPasswords :
          AuthRegisterStart(p, u, e, pw)
    \/ \E p \in Procs, id \in generateID : AuthRegisterCreate(p, id)
    \/ \E p \in Procs, c \in Cookies, u \in Usernames, pw \in LoginPasswords :
          AuthLogin(p, c, u, pw)
    \/ \E p \in Procs, c \in Cookies : AuthLogout(p, c)
    \/ \E p \in Procs, c \in Cookies : AuthProfile(p, c)
    \/ \E p \in Procs, c \in Cookies, cur \in LoginPasswords,
          new \in RegisterPasswords :
          AuthChangePasswordStart(p, c, cur, new)
    \/ \E p \in Procs : AuthChangePasswordUpdate(p)
    \/ Deliver

\* the server of main.go
Spec == Init /\ [][Next]_vars

\* the server of main.go under fair scheduling: a handler that holds the
\* lock is scheduled and its bcrypt call returns, and a response written is
\* read
Fairness ==
    /\ WF_vars(Deliver)
    /\ \A p \in Procs :
          /\ SF_vars(\E id \in generateID : RegisterCreate(p, id))
          /\ SF_vars(ChangePasswordUpdate(p))

SpecFair == Init /\ [][Next]_vars /\ Fairness

\* the server of main.go, with the history of logouts recorded
InitLogoutHistory ==
    /\ ClientIdle
    /\ variant = "Server"
    /\ observe = {"logout"}
    /\ plain = <<>> /\ users = <<>> /\ now = 1 /\ mutex = [writer |-> 0]
    /\ pc = [p \in Procs |-> "idle"] /\ req = [p \in Procs |-> NoRequest]
    /\ last = NoLast /\ issued = {} /\ logins = {}
    /\ loggedOut = {} /\ changed = <<>>

SpecLogoutHistory == InitLogoutHistory /\ [][Next]_vars

\* the server of main.go, with the history of password changes recorded
InitChangeHistory ==
    /\ ClientIdle
    /\ variant = "Server"
    /\ observe = {"change"}
    /\ plain = <<>> /\ users = <<>> /\ now = 1 /\ mutex = [writer |-> 0]
    /\ pc = [p \in Procs |-> "idle"] /\ req = [p \in Procs |-> NoRequest]
    /\ last = NoLast /\ issued = {} /\ logins = {}
    /\ loggedOut = {} /\ changed = <<>>

\* the handlers that read or write passwords, and the profile
NextChangeHistory ==
    \/ \E p \in Procs, u \in Usernames, e \in Emails, pw \in RegisterPasswords :
          RegisterStart(p, u, e, pw)
    \/ \E p \in Procs, id \in generateID : RegisterCreate(p, id)
    \/ \E p \in Procs, c \in Cookies, u \in Usernames, pw \in LoginPasswords :
          Login(p, c, u, pw)
    \/ \E p \in Procs, c \in Cookies : Profile(p, c)
    \/ \E p \in Procs, c \in Cookies, cur \in LoginPasswords,
          new \in NewPasswords :
          ChangePasswordStart(p, c, cur, new)
    \/ \E p \in Procs : ChangePasswordUpdate(p)
    \/ Deliver

SpecChangeHistory == InitChangeHistory /\ [][NextChangeHistory]_vars

\* the server of main.go when generateID may return an identifier that is
\* in the table already: 16 random bytes can repeat
NextCollision ==
    \/ \E p \in Procs, u \in Usernames, e \in Emails, pw \in RegisterPasswords :
          RegisterStart(p, u, e, pw)
    \/ \E p \in Procs, id \in IDs :
          now <= MaxRegistrations /\ RegisterCreate(p, id)
    \/ \E p \in Procs, c \in Cookies, u \in Usernames, pw \in LoginPasswords :
          Login(p, c, u, pw)
    \/ \E p \in Procs, c \in Cookies : Profile(p, c)
    \/ Deliver

SpecCollision == Init /\ [][NextCollision]_vars

\* the handler of auth.go
SpecAuth == InitAuth /\ [][NextAuth]_vars

\* either variant
NextVariants ==
    \/ variant = "Server" /\ Next
    \/ variant = "AuthHandler" /\ NextAuth

SpecVariants == (Init \/ InitAuth) /\ [][NextVariants]_vars

\* the server's variables while another component is examined
serverVars == <<variant, users, now, mutex, pc, req, last, issued, logins,
                plain, observe, loggedOut, changed>>

ServerNotStarted(component) ==
    /\ variant = component
    /\ plain = <<>> /\ users = <<>> /\ now = 1 /\ mutex = [writer |-> 0]
    /\ pc = [p \in Procs |-> "idle"] /\ req = [p \in Procs |-> NoRequest]
    /\ last = NoLast /\ issued = {} /\ logins = {} /\ observe = {}
    /\ loggedOut = {} /\ changed = <<>>

\* ------------------------------------------------- base64util.Encoder
\* A Go string and a []byte are sequences of bytes; []byte(text) and
\* string(decoded) copy the bytes.  The bytes tried: newline, "*", "=", "Q",
\* "T" and 0xFF.
Bytes == {10, 42, 61, 81, 84, 255}
ByteSeqs == UNION {[1..n -> Bytes] : n \in 0..MaxLen}
PadChar == 61

\* the alphabet of base64.StdEncoding: A-Z, a-z, 0-9, + and /
EncodeStd(i) ==
    IF i < 26 THEN 65 + i
    ELSE IF i < 52 THEN 97 + (i - 26)
    ELSE IF i < 62 THEN 48 + (i - 52)
    ELSE IF i = 62 THEN 43 ELSE 47

InAlphabet(b) == \E i \in 0..63 : EncodeStd(i) = b

\* the decode map of the encoding
DecodeStd(b) == CHOOSE i \in 0..63 : EncodeStd(i) = b

\* Encoding.Encode: 3 bytes to 4 characters, the last 1 or 2 bytes to 2 or 3
\* characters and padding
RECURSIVE EncodeQuanta(_)
EncodeQuanta(d) ==
    IF Len(d) = 0 THEN <<>>
    ELSE IF Len(d) = 1
    THEN LET v == d[1] * 16
         IN <<EncodeStd(v \div 64), EncodeStd(v % 64), PadChar, PadChar>>
    ELSE IF Len(d) = 2
    THEN LET v == (d[1] * 256 + d[2]) * 4
         IN <<EncodeStd(v \div 4096), EncodeStd((v \div 64) % 64),
              EncodeStd(v % 64), PadChar>>
    ELSE LET v == d[1] * 65536 + d[2] * 256 + d[3]
         IN <<EncodeStd(v \div 262144), EncodeStd((v \div 4096) % 64),
              EncodeStd((v \div 64) % 64), EncodeStd(v % 64)>>
            \o EncodeQuanta(SubSeq(d, 4, Len(d)))

EncodeToStringUnpadded(d) == SelectSeq(EncodeQuanta(d), LAMBDA c : c # PadChar)

\* base64.StdEncoding.EncodeToString
EncodeToString(d) == EncodeQuanta(d)

EncoderError == [ok |-> FALSE, val |-> <<>>]

\* Encoding.decodeQuantum over the input without its newlines: 4 characters
\* of the alphabet give 3 bytes; the last quantum may end in one or two
\* padding characters; anything else is a CorruptInputError
RECURSIVE DecodeQuanta(_)
DecodeQuanta(t) ==
    IF Len(t) = 0 THEN [ok |-> TRUE, val |-> <<>>]
    ELSE IF Len(t) < 4 THEN EncoderError
    ELSE LET rest == SubSeq(t, 5, Len(t))
         IN IF \A k \in 1..4 : InAlphabet(t[k])
            THEN LET v == DecodeStd(t[1]) * 262144 + DecodeStd(t[2]) * 4096
                          + DecodeStd(t[3]) * 64 + DecodeStd(t[4])
                     r == DecodeQuanta(rest)
                 IN IF r.ok
                    THEN [ok |-> TRUE,
                          val |-> <<v \div 65536, (v \div 256) % 256, v % 256>>
                                  \o r.val]
                    ELSE EncoderError
            ELSE IF /\ rest = <<>> /\ InAlphabet(t[1]) /\ InAlphabet(t[2])
                    /\ t[3] = PadChar /\ t[4] = PadChar
            THEN LET v == DecodeStd(t[1]) * 64 + DecodeStd(t[2])
                 IN [ok |-> TRUE, val |-> <<v \div 16>>]
            ELSE IF /\ rest = <<>> /\ InAlphabet(t[1]) /\ InAlphabet(t[2])
                    /\ InAlphabet(t[3]) /\ t[4] = PadChar
            THEN LET v == (DecodeStd(t[1]) * 4096 + DecodeStd(t[2]) * 64
                           + DecodeStd(t[3])) \div 4
                 IN [ok |-> TRUE, val |-> <<v \div 256, v % 256>>]
            ELSE EncoderError

\* base64.StdEncoding.DecodeString: carriage returns and newlines are
\* skipped
DecodeString(s) == DecodeQuanta(SelectSeq(s, LAMBDA c : c \notin {10, 13}))

\* Encoder.Encode
Encode(text) ==
    IF text = <<>> THEN EncoderError
    ELSE [ok |-> TRUE, val |-> EncodeToString(text)]

\* Encoder.Decode
Decode(encodedText) ==
    IF encodedText = <<>> THEN EncoderError
    ELSE IF ~DecodeString(encodedText).ok THEN EncoderError
    ELSE [ok |-> TRUE, val |-> DecodeString(encodedText).val]

\* Encoder.IsValidBase64
IsValidBase64(text) ==
    IF text = <<>> THEN FALSE ELSE DecodeString(text).ok

\* Encoder.EncodeBytes
EncodeBytes(data) ==
    IF Len(data) = 0 THEN EncoderError
    ELSE [ok |-> TRUE, val |-> EncodeToString(data)]

\* Encoder.DecodeBytes
DecodeBytes(encodedText) ==
    IF encodedText = <<>> THEN EncoderError
    ELSE IF ~DecodeString(encodedText).ok THEN EncoderError
    ELSE [ok |-> TRUE, val |-> DecodeString(encodedText).val]

\* a run of the encoder: an input, then Encode or EncodeBytes and the
\* decoding of its result, or Decode, DecodeBytes or IsValidBase64 of the
\* input itself
InitEncoder ==
    /\ ServerNotStarted("Encoder")
    /\ mm = NoMessages /\ am = NoAuthManager
    /\ enc \in {[op |-> "input", arg |-> d, out |-> EncoderError] : d \in ByteSeqs}

EncoderEncode ==
    /\ enc.op = "input"
    /\ enc' = [enc EXCEPT !.op = "Encode", !.out = Encode(enc.arg)]
    /\ UNCHANGED <<serverVars, mm, am>>

EncoderEncodeBytes ==
    /\ enc.op = "input"
    /\ enc' = [enc EXCEPT !.op = "EncodeBytes", !.out = EncodeBytes(enc.arg)]
    /\ UNCHANGED <<serverVars, mm, am>>

EncoderDecode ==
    /\ \/ /\ enc.op = "input"
          /\ enc' = [enc EXCEPT !.op = "Decode", !.out = Decode(enc.arg)]
       \/ /\ enc.op = "Encode" /\ enc.out.ok
          /\ enc' = [enc EXCEPT !.op = "Encode,Decode",
                                 !.out = Decode(enc.out.val)]
    /\ UNCHANGED <<serverVars, mm, am>>

EncoderDecodeBytes ==
    /\ \/ /\ enc.op = "input"
          /\ enc' = [enc EXCEPT !.op = "DecodeBytes", !.out = DecodeBytes(enc.arg)]
       \/ /\ enc.op = "EncodeBytes" /\ enc.out.ok
          /\ enc' = [enc EXCEPT !.op = "EncodeBytes,DecodeBytes",
                                 !.out = DecodeBytes(enc.out.val)]
    /\ UNCHANGED <<serverVars, mm, am>>

EncoderIsValidBase64 ==
    /\ enc.op = "input"
    /\ enc' = [enc EXCEPT !.op = "IsValidBase64",
                          !.out = [ok |-> IsValidBase64(enc.arg), val |-> <<>>]]
    /\ UNCHANGED <<serverVars, mm, am>>

NextEncoder ==
    \/ EncoderEncode
    \/ EncoderEncodeBytes
    \/ EncoderDecode
    \/ EncoderDecodeBytes
    \/ EncoderIsValidBase64

SpecEncoder == InitEncoder /\ [][NextEncoder]_vars

\* ------------------------------------------------------- MessageManager
\* the arguments of MessageManager.show
MessageTypes == {"success", "error", "info", "warning"}
Durations == {0, 3000, 5000}

\* The message element and the singleton MessageManager.instance.  id
\* numbers the messages shown; the timer a message sets carries the
\* message's number; messageTimeout is the timer id last stored (0: null),
\* timers the timers set and neither fired nor cleared.
InitMessages ==
    /\ ServerNotStarted("MessageManager")
    /\ enc = NoEncoder /\ am = NoAuthManager
    /\ mm = [id |-> 0, type |-> "", duration |-> 0, hidden |-> TRUE,
             messageTimeout |-> 0, timers |-> {}]

CancelPendingNone(m) == m.timers

\* if (instance.messageTimeout) clearTimeout(instance.messageTimeout)
CancelPending(m) ==
    IF m.messageTimeout # 0 THEN m.timers \ {m.messageTimeout} ELSE m.timers

\* type !== 'error' && duration > 0
AutoHides(type, duration) == type # "error" /\ duration > 0

\* MessageManager.show(text, type, duration)
MessageShow(type, duration) ==
    /\ mm.id < MaxMessages
    /\ mm' = [id |-> mm.id + 1, type |-> type, duration |-> duration,
              hidden |-> FALSE,
              messageTimeout |-> IF AutoHides(type, duration)
                                 THEN mm.id + 1 ELSE mm.messageTimeout,
              timers |-> IF AutoHides(type, duration)
                         THEN CancelPending(mm) \cup {mm.id + 1}
                         ELSE CancelPending(mm)]
    /\ UNCHANGED <<serverVars, enc, am>>

\* MessageManager.hide()
MessageHide ==
    /\ mm.id > 0
    /\ mm' = [mm EXCEPT !.hidden = TRUE]
    /\ UNCHANGED <<serverVars, enc, am>>

\* MessageManager.clearTimeout()
MessageClearTimeout ==
    /\ mm' = IF mm.messageTimeout # 0
             THEN [mm EXCEPT !.timers = mm.timers \ {mm.messageTimeout},
                             !.messageTimeout = 0]
             ELSE mm
    /\ UNCHANGED <<serverVars, enc, am>>

\* the callback of the setTimeout of show: MessageManager.hide()
MessageTimerFires(t) ==
    /\ t \in mm.timers
    /\ mm' = [mm EXCEPT !.timers = mm.timers \ {t}, !.hidden = TRUE]
    /\ UNCHANGED <<serverVars, enc, am>>

NextMessages ==
    \/ \E type \in MessageTypes, duration \in Durations :
          MessageShow(type, duration)
    \/ MessageHide
    \/ MessageClearTimeout
    \/ \E t \in 1..MaxMessages : MessageTimerFires(t)

\* the browser runs the callback of every timer that is not cleared
SpecMessages ==
    /\ InitMessages /\ [][NextMessages]_vars
    /\ WF_vars(\E t \in 1..MaxMessages : MessageTimerFires(t))

\* ---------------------------------------------------------- AuthManager
\* The AuthManager instances App has created, numbered in the order of
\* creation; window.authManager is the last one.  currentUser[i] is whether
\* instance i holds a user, intervals[i] the interval timers it has set
\* (setInterval returns an id that is dropped, and nothing clears it),
\* shown the section on display, session whether the server accepts the
\* browser's cookie, checking the instance whose checkExistingSession is
\* due (0: none), tick the last run of a monitoring callback.
NoTick == [instance |-> 0, sent |-> FALSE, shown |-> "login"]

\* new App(): initializeModules, with start() due
InitAuthManager ==
    /\ ServerNotStarted("AuthManager")
    /\ enc = NoEncoder /\ mm = NoMessages
    /\ \E session \in BOOLEAN :
          am = [instances |-> 1, currentUser |-> <<FALSE>>, intervals |-> <<0>>,
                shown |-> "login", session |-> session, checking |-> 1,
                tick |-> NoTick]

RECURSIVE SumSeq(_)
SumSeq(q) == IF q = <<>> THEN 0 ELSE Head(q) + SumSeq(Tail(q))

\* the interval timers that are active
ActiveIntervals == SumSeq(am.intervals)

\* showProfile of instance i: currentUser = user, the profile section,
\* startSessionMonitoring: one more setInterval
ShowProfile(a, i) ==
    [a EXCEPT !.currentUser[i] = TRUE, !.shown = "profile",
              !.intervals[i] = a.intervals[i] + 1]

\* forceShowLogin of instance i: the login form, currentUser = null
ForceShowLogin(a, i) ==
    [a EXCEPT !.currentUser[i] = FALSE, !.shown = "login"]

\* checkExistingSession of the instance App.start() awaits
CheckExistingSession ==
    /\ am.checking # 0
    /\ am.session => ActiveIntervals < MaxIntervals
    /\ am' = [(IF am.session THEN ShowProfile(am, am.checking)
                            ELSE ForceShowLogin(am, am.checking))
              EXCEPT !.checking = 0]
    /\ UNCHANGED <<serverVars, enc, mm>>

\* showProfile in every instance of the sequence
RECURSIVE ShowProfileAll(_, _)
ShowProfileAll(a, i) ==
    IF i = 0 THEN a ELSE ShowProfileAll(ShowProfile(a, i), i - 1)

\* the login form is submitted: the submit listener of every instance
\* created so far runs handleLogin; success is the server's answer
HandleLogin(success) ==
    /\ am.shown = "login"
    /\ success => ActiveIntervals + am.instances <= MaxIntervals
    /\ am' = IF success
             THEN [ShowProfileAll(am, am.instances) EXCEPT !.session = TRUE]
             ELSE am
    /\ UNCHANGED <<serverVars, enc, mm>>

\* the logout item of the navigation: window.authManager.handleLogout()
HandleLogout ==
    /\ am.shown = "profile"
    /\ am' = [ForceShowLogin(am, am.instances) EXCEPT !.session = FALSE]
    /\ UNCHANGED <<serverVars, enc, mm>>

\* App.restart(): cleanup sets currentUser = null in the current instance
\* and drops it, initializeModules creates the next one, start() is due
Restart ==
    /\ am.instances < MaxInstances
    /\ am.checking = 0
    /\ am' = [am EXCEPT !.currentUser = Append([am.currentUser EXCEPT
                                                  ![am.instances] = FALSE], FALSE),
                        !.intervals = Append(am.intervals, 0),
                        !.instances = am.instances + 1,
                        !.checking = am.instances + 1]
    /\ UNCHANGED <<serverVars, enc, mm>>

\* the callback of an interval timer of instance i: with a current user it
\* fetches /api/profile, and forceShowLogin when the answer is no success;
\* expired is whether the server has stopped accepting the cookie
MonitoringTick(i, expired) ==
    /\ i \in 1..am.instances
    /\ am.intervals[i] > 0
    /\ LET sent == am.currentUser[i]
           ok == am.session /\ ~expired
           t == [instance |-> i, sent |-> sent, shown |-> am.shown]
       IN am' = IF ~sent THEN [am EXCEPT !.tick = t]
                ELSE IF ok THEN [am EXCEPT !.tick = t]
                ELSE [ForceShowLogin(am, i) EXCEPT !.tick = t, !.session = FALSE]
    /\ UNCHANGED <<serverVars, enc, mm>>

NextAuthManager ==
    \/ CheckExistingSession
    \/ \E success \in BOOLEAN : HandleLogin(success)
    \/ HandleLogout
    \/ Restart
    \/ \E i \in 1..MaxInstances, expired \in BOOLEAN : MonitoringTick(i, expired)

SpecAuthManager == InitAuthManager /\ [][NextAuthManager]_vars

\* ================================================================ claims
\* a response to a request of kind op is written by this step
Done(op) == last = NoLast /\ last'.req.op = op

\* C1: in every reachable state no two distinct user records share a
\* username and no two distinct user records share an email.
C1_UsersUnique ==
    \A i, j \in DOMAIN users :
        i # j => /\ users[i].Username # users[j].Username
                 /\ users[i].Email # users[j].Email

\* two records are stored, the second one just created
C1_Witness ==
    /\ Cardinality(DOMAIN users) = 2
    /\ last.req.op = "register"
    /\ last.resp.status = StatusCreated

\* C2: a valid registration whose username equals an existing record's
\* username, whatever its email, fails with 409 "Username already exists";
\* one whose email (and not its username) equals an existing record's fails
\* with 409 "Email already exists"; both leave the user table as it was.
C2_DuplicateRejected ==
    [][(Done("register") /\ last'.req.Password \in {"secret1", "secret9"}
                         /\ last'.req.Username # "" /\ last'.req.Email # "")
       => LET r == last'.req
              sameName == \E u \in Records : u.Username = r.Username
              sameEmail == \E u \in Records : u.Email = r.Email
          IN /\ sameName =>
                   /\ last'.resp.status = StatusConflict
                   /\ last'.resp.message = "Username already exists"
                   /\ users' = users
             /\ (sameEmail /\ ~sameName) =>
                   /\ last'.resp.status = StatusConflict
                   /\ last'.resp.message = "Email already exists"
                   /\ users' = users]_vars

\* C3: a registration whose username equals the username of some record and
\* whose email equals the email of some record (the same or another one) is
\* answered with "Username already exists", never "Email already exists".
C3_UsernameReportedFirst ==
    [][(/\ Done("register")
        /\ last'.resp.status = StatusConflict
        /\ \E u \in Records : u.Username = last'.req.Username
        /\ \E u \in Records : u.Email = last'.req.Email)
       => last'.resp.message = "Username already exists"]_vars

\* C4: a registration with an empty username, email or password, or a
\* password shorter than 6 characters, fails with 400 and creates no record,
\* also when its username or email collides with an existing record.
C4_ValidationFirst ==
    [][(/\ Done("register")
        /\ \/ last'.req.Username = "" \/ last'.req.Email = ""
           \/ last'.req.Password = "" \/ Len(last'.req.Password) < 6)
       => /\ last'.resp.status = StatusBadRequest
          /\ ~last'.resp.success
          /\ users' = users]_vars

\* a too short password is refused although the username is taken as well
C4_Witness ==
    /\ last.req.op = "register"
    /\ last.req.Password = "abc"
    /\ last.resp.status = StatusBadRequest
    /\ \E u \in Records : u.Username = last.req.Username

C6_RegisterResponse ==
    [][(Done("register") /\ users' # users)
       => /\ last'.resp.status = StatusCreated
          /\ last'.resp.envelope
          /\ last'.resp.success
          /\ last'.resp.data =
                [kind |-> "username", username |-> last'.req.Username]]_vars

\* the response of a registration that has succeeded
C6_Witness ==
    /\ last.req.op = "register"
    /\ last.resp.success
    /\ last.resp.data.kind = "username"
    /\ last.resp.data.username = "bob"

\* C7: a login whose username matches no record and a login whose username
\* exists but whose password is wrong get the same response: status 401,
\* success = false, the same message, no data and no cookie; in
\* Server.loginHandler and in AuthHandler.LoginHandler.
C7_LoginDenialsAlike ==
    LET r == last.req
        matches == {u \in Records : u.Username = r.Username}
        notFound == matches = {}
        wrongPassword == matches # {} /\ \A u \in matches : plain[u.ID] # r.Password
    IN (/\ r.op = "login"
        /\ variant = "Server" => (r.Username # "" /\ r.Password # "")
        /\ notFound \/ wrongPassword)
       => /\ last.resp.status = StatusUnauthorized
          /\ ~last.resp.success
          /\ last.resp.message = (IF variant = "Server"
                                  THEN "Invalid username or password"
                                  ELSE "Invalid credentials")
          /\ last.resp.data = NoData
          /\ last.cookie = NoCookie

\* a wrong password for an existing user has been refused by the server
C7_Witness ==
    /\ variant = "Server"
    /\ last.req.op = "login"
    /\ last.req.Password # ""
    /\ \E u \in Records : u.Username = last.req.Username
    /\ last.resp.status = StatusUnauthorized

\* C8: Server.loginHandler answers 200 exactly when a record with the
\* submitted username exists and the submitted password is the one last set
\* for it (at registration or by its last successful password change); the
\* session it saves carries that record's id.
C8_LoginIffCurrentPassword ==
    LET r == last.req
        owners == {i \in DOMAIN users :
                     users[i].Username = r.Username /\ plain[i] = r.Password}
    IN r.op = "login"
       => /\ (last.resp.status = StatusOK) <=> (owners # {})
          /\ (last.resp.status = StatusOK) =>
                /\ last.cookie.kind = "session"
                /\ last.cookie.user_id \in owners
                /\ SessionCookie(last.cookie.user_id) \in issued
                /\ last.resp.data.id = last.cookie.user_id
          /\ (last.resp.status # StatusOK) => last.cookie = NoCookie

\* a login with a password set by a password change has succeeded
C8_Witness ==
    /\ last.req.op = "login"
    /\ last.req.Password = "secret9"
    /\ last.resp.status = StatusOK

\* C9: a login request with an empty username or password fails with 400
\* without taking the lock or reading the table, and creates no session.
C9_LoginValidation ==
    [][(/\ Done("login")
        /\ last'.req.Username = "" \/ last'.req.Password = "")
       => /\ last'.resp.status = StatusBadRequest
          /\ ~last'.resp.success
          /\ last'.cookie = NoCookie
          /\ issued' = issued
          /\ mutex' = mutex]_vars

\* a login without a password is refused while a writer holds the lock
C9_Witness ==
    /\ last.req.op = "login"
    /\ last.req.Username = "alice"
    /\ last.req.Password = ""
    /\ last.resp.status = StatusBadRequest
    /\ mutex.writer # 0

C11_ProfileUnauthorized ==
    LET c == last.req.cookie
    IN (last.req.op = "profile" /\ (c.kind # "session" \/ c.user_id = ""))
       => /\ last.resp.status = StatusUnauthorized
          /\ ~last.resp.success
          /\ last.resp.data = NoData

\* a profile request with the emptied session of a logout is refused while
\* a user is registered
C11_Witness ==
    /\ last.req.op = "profile"
    /\ last.req.cookie = SessionCookie("")
    /\ last.resp.status = StatusUnauthorized
    /\ users # <<>>

\* C13: every logout request is answered with status 200 and success = true:
\* with a valid session, with none, with an undecodable one, and with the
\* emptied session of an earlier logout; in Server.logoutHandler and
\* AuthHandler.LogoutHandler.
C13_LogoutAlwaysOK ==
    last.req.op = "logout"
    => /\ last.resp.status = StatusOK
       /\ last.resp.envelope
       /\ last.resp.success

\* a logout repeated with the emptied session of an earlier logout
C13_Witness ==
    /\ variant = "Server"
    /\ last.req.op = "logout"
    /\ last.req.cookie = SessionCookie("")
    /\ last.resp.success

\* C12: a profile request that presents a session which an earlier logout
\* request presented is answered 401.
C12_OldSessionRefused ==
    (last.req.op = "profile" /\ last.req.cookie \in loggedOut)
    => last.resp.status = StatusUnauthorized

WrongCurrentPassword(r) ==
    /\ r.cookie.kind = "session"
    /\ r.cookie.user_id \in DOMAIN users
    /\ r.CurrentPassword # "" /\ r.NewPassword # ""
    /\ Len(r.NewPassword) >= 6
    /\ ~CompareHashAndPassword(users[r.cookie.user_id].Password,
                               r.CurrentPassword)

\* C15 as stated: a change-password request whose current password does not
\* verify is answered 401 and leaves the stored hash unchanged; afterwards
\* the previous password logs in and the rejected new password does not.
C15_WrongCurrentPasswordAsStated ==
    [][(Done("change-password") /\ WrongCurrentPassword(last'.req))
       => LET r == last'.req
              i == r.cookie.user_id
          IN /\ last'.resp.status = StatusUnauthorized
             /\ users' = users
             /\ LogsIn(users', users[i].Username, plain[i])
             /\ ~LogsIn(users', users[i].Username, r.NewPassword)]_vars

\* C15: a change-password request whose current password does not verify
\* is answered 401 and leaves the stored hash unchanged; afterwards the
\* previous password logs in, and the rejected new password does not unless
\* it is the previous password.
C15_WrongCurrentPassword ==
    [][(Done("change-password") /\ WrongCurrentPassword(last'.req))
       => LET r == last'.req
              i == r.cookie.user_id
          IN /\ last'.resp.status = StatusUnauthorized
             /\ ~last'.resp.success
             /\ users' = users
             /\ LogsIn(users', users[i].Username, plain[i])
             /\ r.NewPassword # plain[i]
                => ~LogsIn(users', users[i].Username, r.NewPassword)]_vars

\* a change to a password other than the one in force has been refused
C15_Witness ==
    /\ last.req.op = "change-password"
    /\ last.resp.message = "Current password is incorrect"
    /\ last.req.NewPassword = "secret9"
    /\ plain[last.req.cookie.user_id] = "secret1"

\* C16: change-password reports its failures in the order: no session or
\* empty user_id (401), then an empty field or a new password shorter than
\* 6 (400), then a session owner missing from the table (404), then a
\* current password that does not verify (401); no failure changes a record.
C16_ChangePasswordPrecedence ==
    [][Done("change-password")
       => LET r == last'.req
              c == r.cookie
              unauth == c.kind # "session" \/ c.user_id = ""
              invalid == \/ r.CurrentPassword = "" \/ r.NewPassword = ""
                         \/ Len(r.NewPassword) < 6
              missing == c.user_id \notin DOMAIN users
              wrong == ~CompareHashAndPassword(users[c.user_id].Password,
                                               r.CurrentPassword)
          IN /\ unauth =>
                  /\ last'.resp.status = StatusUnauthorized
                  /\ last'.resp.message = "Not authenticated"
             /\ (~unauth /\ invalid) =>
                  last'.resp.status = StatusBadRequest
             /\ (~unauth /\ ~invalid /\ missing) =>
                  last'.resp.status = StatusNotFound
             /\ (~unauth /\ ~invalid /\ ~missing /\ wrong) =>
                  /\ last'.resp.status = StatusUnauthorized
                  /\ last'.resp.message = "Current password is incorrect"
             /\ last'.resp.status # StatusOK =>
                  /\ ~last'.resp.success
                  /\ users' = users]_vars

\* a valid session, a wrong current password and a too short new password:
\* the answer is 400
C16_Witness ==
    /\ last.req.op = "change-password"
    /\ last.req.cookie.kind = "session"
    /\ last.req.cookie.user_id \in DOMAIN users
    /\ last.req.CurrentPassword = "secret9"
    /\ plain[last.req.cookie.user_id] = "secret1"
    /\ last.req.NewPassword = "abc"
    /\ last.resp.status = StatusBadRequest

\* C17: a successful password change sets no cookie, and the session that
\* made it keeps passing authentication: afterwards a profile request with
\* it is answered 200 with its owner's record, and a change-password request
\* with it is not answered "Not authenticated" or 404.
C17_SessionSurvivesChange ==
    /\ (last.req.op = "change-password" /\ last.resp.status = StatusOK)
       => /\ last.cookie = NoCookie
          /\ last.req.cookie \in issued
    /\ (/\ last.req.op \in {"profile", "change-password"}
        /\ last.req.cookie.kind = "session"
        /\ last.req.cookie.user_id \in DOMAIN changed)
       => /\ last.req.op = "profile"
             => /\ last.resp.status = StatusOK
                /\ last.resp.data.id = last.req.cookie.user_id
          /\ last.req.op = "change-password"
             => /\ last.resp.status # StatusNotFound
                /\ last.resp.message # "Not authenticated"

\* the session that changed the password to secret9 reads the profile
C17_Witness ==
    /\ last.req.op = "profile"
    /\ last.resp.status = StatusOK
    /\ last.req.cookie.user_id \in DOMAIN changed
    /\ changed[last.req.cookie.user_id].new = "secret9"

\* strings that are a submitted password or a stored hash
Secrets == (Passwords \ {""}) \cup {users[i].Password : i \in DOMAIN users}

\* C18: no response carries a password field or a value that is a password
\* or a stored hash, in its data, its message or its cookie; and no record's
\* Password field holds a plaintext password.
C18_NoPasswordInResponses ==
    /\ last # NoLast
       => LET d == last.resp.data
          IN /\ DOMAIN d \subseteq {"kind", "id", "username", "email",
                                    "created", "timestamp", "users"}
             /\ \A f \in DOMAIN d \cap {"id", "username", "email"} :
                   d[f] \notin Secrets
             /\ last.resp.message \notin Secrets
             /\ last.cookie.kind = "session"
                => last.cookie.user_id \notin Secrets
    /\ \A i \in DOMAIN users :
          /\ users[i].Password # plain[i]
          /\ users[i].Password \notin Passwords

\* a login response carries the record of a user whose hash is stored
C18_Witness ==
    /\ last.req.op = "login"
    /\ last.resp.data.kind = "user"
    /\ users[last.resp.data.id].Password = hashPassword(last.req.Password)

SecondOfTwo(r) ==
    /\ r.cookie.kind = "session"
    /\ r.cookie.user_id \in DOMAIN changed
    /\ r.CurrentPassword = changed[r.cookie.user_id].old
    /\ r.NewPassword # changed[r.cookie.user_id].new
    /\ Len(r.NewPassword) >= 6

\* C20 as stated: of two change-password requests of one user that both
\* submit the password current before either ran and ask for different new
\* passwords, the one served second fails with 401 and the stored hash stays
\* that of the first.
C20_OneOfTwoChangesAsStated ==
    [][(Done("change-password") /\ SecondOfTwo(last'.req))
       => LET i == last'.req.cookie.user_id
          IN /\ last'.resp.status = StatusUnauthorized
             /\ users'[i].Password = hashPassword(changed[i].new)]_vars

\* C20: verifying the current password and writing the new hash is one
\* atomic step with respect to other change-password requests: a successful
\* request writes while the stored hash still verifies its current password;
\* and of two requests of one user that both submit the password P current
\* before either ran and ask for different new passwords, both other than P,
\* the one served second fails with 401 and the stored hash stays that of
\* the first.
C20_OneOfTwoChanges ==
    [][Done("change-password")
       => LET r == last'.req
              i == r.cookie.user_id
          IN /\ last'.resp.status = StatusOK
                => /\ CompareHashAndPassword(users[i].Password,
                                             r.CurrentPassword)
                   /\ users'[i].Password = hashPassword(r.NewPassword)
             /\ (/\ SecondOfTwo(r)
                 /\ changed[i].new # changed[i].old
                 /\ r.NewPassword # r.CurrentPassword)
                => /\ last'.resp.status = StatusUnauthorized
                   /\ last'.resp.message = "Current password is incorrect"
                   /\ changed' = changed
                   /\ users' = users
                   /\ users'[i].Password = hashPassword(changed[i].new)]_vars

\* secret1 was changed to secret9; a request to change secret1 to secret5
\* has been refused
C20_Witness ==
    /\ last.req.op = "change-password"
    /\ last.resp.message = "Current password is incorrect"
    /\ last.req.cookie.user_id \in DOMAIN changed
    /\ changed[last.req.cookie.user_id] = [old |-> "secret1", new |-> "secret9"]
    /\ last.req.CurrentPassword = "secret1"
    /\ last.req.NewPassword = "secret5"

\* C21: no registration or change-password request is at its hashing step
\* while it holds the write lock of the user table.
C21_HashBeforeLock ==
    \A p \in Procs :
        pc[p] \in {"reg_hash", "cp_hash"} => mutex.writer # p

\* C23: every failure response of register, login, profile and
\* change-password is the JSON envelope with success = false, a message
\* and no data.
C23_FailuresInEnvelope ==
    (/\ last.req.op \in {"register", "login", "profile", "change-password"}
     /\ last.resp.status >= 400)
    => /\ last.resp.envelope
       /\ ~last.resp.success
       /\ last.resp.message # ""
       /\ last.resp.data = NoData

\* C24: a successful registration leaves every existing record in the table
\* unchanged and makes the table one record larger, also when the generated
\* identifier is the key of an existing record.
C24_CollisionDefended ==
    [][(Done("register") /\ last'.resp.status = StatusCreated)
       => /\ \A i \in DOMAIN users :
                i \in DOMAIN users' /\ users'[i] = users[i]
          /\ Cardinality(DOMAIN users') = Cardinality(DOMAIN users) + 1]_vars

\* C25: a profile request, or a well-formed change-password request, whose
\* session is validly signed and names a user id that is not in the table is
\* answered 404 without data, and changes no record.
C25_UnresolvedSession ==
    [][(/\ Done("profile") \/ Done("change-password")
        /\ last'.req.cookie.kind = "session"
        /\ last'.req.cookie.user_id # ""
        /\ last'.req.cookie.user_id \notin DOMAIN users
        /\ last'.req.op = "change-password"
           => /\ last'.req.CurrentPassword # ""
              /\ last'.req.NewPassword # ""
              /\ Len(last'.req.NewPassword) >= 6)
       => /\ last'.resp.status = StatusNotFound
          /\ ~last'.resp.success
          /\ last'.resp.data = NoData
          /\ users' = users]_vars

\* a change-password request with a session of an earlier run is answered
\* 404 while users are registered
C25_Witness ==
    /\ last.req.op = "change-password"
    /\ last.req.cookie = StaleCookie
    /\ last.resp.status = StatusNotFound
    /\ users # <<>>

\* C26: a profile or change-password request whose cookie fails the
\* signature check is answered 401 "Not authenticated" without data,
\* whatever user the cookie names; and every such request that succeeds
\* presented a value the store has signed.
C26_ForgedTokenRefused ==
    last.req.op \in {"profile", "change-password"}
    => /\ last.req.cookie.kind = "forged"
          => /\ last.resp.status = StatusUnauthorized
             /\ last.resp.message = "Not authenticated"
             /\ last.resp.data = NoData
       /\ last.resp.status = StatusOK => last.req.cookie \in issued

\* a forged cookie naming a registered user is refused
C26_Witness ==
    /\ last.req.op = "profile"
    /\ last.req.cookie.kind = "forged"
    /\ last.req.cookie.user_id \in DOMAIN users
    /\ last.resp.status = StatusUnauthorized

\* C27: AuthHandler: no two distinct records share a username or an email,
\* also when RegisterHandler requests run concurrently.
C27_AuthUsersUnique ==
    variant = "AuthHandler"
    => \A i, j \in DOMAIN users :
          i # j => /\ users[i].Username # users[j].Username
                   /\ users[i].Email # users[j].Email

\* C28: AuthHandler.RegisterHandler answers a registration whose password is
\* not empty and shorter than 6 characters with 400 and stores no record
\* for it.
C28_AuthShortPassword ==
    (/\ variant = "AuthHandler"
     /\ last.req.op = "register"
     /\ last.req.Username # "" /\ last.req.Email # ""
     /\ last.req.Password # "" /\ Len(last.req.Password) < 6)
    => /\ last.resp.status = StatusBadRequest
       /\ ~last.resp.success

\* C30: healthHandler reads the user count only while no registration holds
\* the write lock of the table.
C30_TableAccessUnderLock ==
    last.req.op = "health" => mutex.writer = 0

\* C22: a handler is between its first and its last step exactly while it
\* holds the lock, a held lock is eventually released, and the step that
\* releases it writes the response; so every request that a handler has
\* begun to serve is eventually answered, no handler that has returned holds
\* the lock, and no request waits for the lock for ever.
C22_CompletesAndReleases ==
    /\ [](\A p \in Procs : pc[p] # "idle" <=> mutex.writer = p)
    /\ [][\A p \in Procs :
            (pc[p] # "idle" /\ pc'[p] = "idle")
            => /\ last'.resp.status \in {StatusOK, StatusCreated}
               /\ mutex'.writer = 0]_vars
    /\ (mutex.writer # 0) ~> (mutex.writer = 0)

\* a password change has been answered and the lock is free again
C22_Witness ==
    /\ last.req.op = "change-password"
    /\ last.resp.status = StatusOK
    /\ mutex.writer = 0
    /\ \A p \in Procs : pc[p] = "idle"

\* C29: every logout answers with a cookie whose user_id is empty and whose
\* Max-Age is negative, whatever session the request carried; a profile or
\* change-password request that presents that cookie, or none after dropping
\* it, is answered 401 without data.
C29_LogoutClearsSession ==
    /\ last.req.op = "logout"
       => /\ last.cookie.kind = "session"
          /\ last.cookie.user_id = ""
          /\ last.cookie.maxAge < 0
    /\ (/\ last.req.op \in {"profile", "change-password"}
        /\ last.req.cookie \in {SessionCookie(""), NoCookie})
       => /\ last.resp.status = StatusUnauthorized
          /\ ~last.resp.success
          /\ last.resp.data = NoData

\* AuthHandler refuses a password change that presents the cookie of a
\* logout
C29_Witness ==
    /\ variant = "AuthHandler"
    /\ last.req.op = "change-password"
    /\ last.req.cookie = SessionCookie("")
    /\ last.req.CurrentPassword = "secret1"
    /\ last.resp.status = StatusUnauthorized

\* C31: the user_id of every session saved by a login is a key of the user
\* table in every later state, and a profile request that presents such a
\* session is answered 200, never 404.
C31_SessionsReferToUsers ==
    /\ \A l \in logins : l.user_id \in DOMAIN users
    /\ (/\ last.req.op = "profile"
        /\ \E l \in logins : last.req.cookie = SessionCookie(l.user_id))
       => /\ last.resp.status = StatusOK
          /\ last.resp.data = ProfileOf(users, last.req.cookie)

\* the profile of a logged-in user, answered after a later registration
C31_Witness ==
    /\ last.req.op = "profile"
    /\ last.resp.status = StatusOK
    /\ \E l \in logins : last.req.cookie = SessionCookie(l.user_id)
    /\ \E i \in DOMAIN users : users[i].Created > last.resp.data.created

\* C32: a login that is refused, on a request that carries the session of a
\* stored user, sets no cookie, signs no session value and leaves the table
\* as it was, so that the profile answered for the session the caller still
\* holds is the same user as before; a profile request answers with the
\* record of its session.
C32_FailedLoginKeepsSession ==
    [][/\ (/\ Done("login")
           /\ last'.resp.status # StatusOK
           /\ ProfileOf(users, last'.req.cookie) # NoData)
          => /\ last'.cookie = NoCookie
             /\ issued' = issued
             /\ users' = users
             /\ ProfileOf(users', last'.req.cookie)
                   = ProfileOf(users, last'.req.cookie)
       /\ (Done("profile") /\ ProfileOf(users, last'.req.cookie) # NoData)
          => /\ last'.resp.status = StatusOK
             /\ last'.resp.data = ProfileOf(users, last'.req.cookie)]_vars

\* AuthHandler refuses a wrong password on a request that carries the
\* session of a stored user
C32_Witness ==
    /\ variant = "AuthHandler"
    /\ last.req.op = "login"
    /\ last.resp.status = StatusUnauthorized
    /\ last.req.Password = "secret9"
    /\ ProfileOf(users, last.req.cookie) # NoData
    /\ \E u \in Records : u.Username = last.req.Username

\* C33: a login that succeeds as user B on a request carrying the session of
\* another stored user A sets a cookie whose user_id is B's id and not A's,
\* and the profile answered for that cookie is B's record.
C33_LoginRebindsSession ==
    [][(/\ Done("login")
        /\ last'.resp.status = StatusOK
        /\ ProfileOf(users, last'.req.cookie) # NoData
        /\ ProfileOf(users, last'.req.cookie).username # last'.req.Username)
       => LET c == last'.cookie
              a == ProfileOf(users, last'.req.cookie)
          IN /\ DOMAIN c = {"kind", "user_id", "maxAge"}
             /\ c.kind = "session"
             /\ c.user_id # a.id
             /\ c.user_id \in DOMAIN users
             /\ users[c.user_id].Username = last'.req.Username
             /\ SessionCookie(c.user_id) \in issued'
             /\ ProfileOf(users', SessionCookie(c.user_id)).username
                   = last'.req.Username
             /\ ProfileOf(users', SessionCookie(c.user_id)) # a]_vars

\* bob has logged in on a request that carried the session of alice
C33_Witness ==
    /\ last.req.op = "login"
    /\ last.resp.status = StatusOK
    /\ last.req.Username = "bob"
    /\ ProfileOf(users, last.req.cookie) # NoData
    /\ ProfileOf(users, last.req.cookie).username = "alice"
    /\ last.cookie.user_id # last.req.cookie.user_id

C35_ReadsLeaveTable ==
    [][/\ (Done("login") \/ Done("logout") \/ Done("profile") \/ Done("health"))
          => users' = users
       /\ (Done("register") /\ last'.resp.status # StatusCreated)
          => users' = users
       /\ (Done("change-password") /\ last'.resp.status # StatusOK)
          => users' = users]_vars

\* a logout has been answered for the session of a stored user
C35_Witness ==
    /\ last.req.op = "logout"
    /\ ProfileOf(users, last.req.cookie) # NoData
    /\ Cardinality(DOMAIN users) = 2

\* C36: a logout leaves the table and every session value signed so far as
\* they were, so that each of them is answered the same profile as before;
\* a profile request that presents the session of a stored user is answered
\* 200 also after a logout; and every login that succeeds, also one after a
\* logout, sets a cookie with the store's Max-Age, which is positive.
C36_LogoutAffectsOneSession ==
    [][/\ Done("logout")
          => /\ users' = users
             /\ issued \subseteq issued'
             /\ \A c \in issued : ProfileOf(users', c) = ProfileOf(users, c)
       /\ (/\ Done("profile")
           /\ SessionCookie("") \in issued
           /\ ProfileOf(users, last'.req.cookie) # NoData)
          => /\ last'.resp.status = StatusOK
             /\ last'.resp.data = ProfileOf(users, last'.req.cookie)
       /\ (Done("login") /\ last'.resp.status = StatusOK)
          => /\ last'.cookie.maxAge = SessionMaxAge
             /\ last'.cookie.maxAge > 0]_vars

\* a login on a request that carries the cookie of an earlier logout
C36_Witness ==
    /\ last.req.op = "login"
    /\ last.resp.status = StatusOK
    /\ last.req.cookie = SessionCookie("")
    /\ last.cookie.maxAge = SessionMaxAge

\* C37: decoding the result of Encode gives back the text, and decoding the
\* result of EncodeBytes gives back the bytes, without error, for every
\* input that is not empty; Encode, Decode, EncodeBytes and DecodeBytes fail
\* on the empty input; IsValidBase64 answers true exactly for the inputs
\* that Decode accepts.
C37_EncoderRoundTrip ==
    /\ (enc.op \in {"Encode", "EncodeBytes"} /\ enc.arg # <<>>) => enc.out.ok
    /\ enc.op \in {"Encode,Decode", "EncodeBytes,DecodeBytes"}
       => enc.out = [ok |-> TRUE, val |-> enc.arg]
    /\ (enc.op \in {"Encode", "Decode", "EncodeBytes", "DecodeBytes"}
        /\ enc.arg = <<>>)
       => ~enc.out.ok
    /\ enc.op = "IsValidBase64" => (enc.out.ok <=> Decode(enc.arg).ok)

\* four bytes, the first one 0xFF, have been encoded and decoded again
C37_Witness ==
    /\ enc.op = "Encode,Decode"
    /\ Len(enc.arg) = 4
    /\ enc.arg[1] = 255
    /\ Len(enc.out.val) = 4

\* a step in which a timer's callback hides the message on display
AutoHidden ==
    ~mm.hidden /\ mm'.hidden /\ mm'.timers # mm.timers

\* the message numbered m is on display, is no error and has a positive
\* duration
AutoHideDue(m) ==
    mm.id = m /\ ~mm.hidden /\ AutoHides(mm.type, mm.duration)

\* C38, as stated: the message on display is hidden by no timer but its own,
\* an error message by none, and a message that is no error and has a
\* positive duration is eventually hidden or replaced.
C38_AutoHideAsStated ==
    /\ [][AutoHidden => (mm.timers \ mm'.timers = {mm.id} /\ mm.type # "error")]_vars
    /\ \A m \in 1..MaxMessages : AutoHideDue(m) ~> (mm.hidden \/ mm.id # m)

\* C38: the message on display is hidden by no timer but its own, an error
\* message by none, and a message that is no error and has a positive
\* duration is eventually hidden or replaced, unless
\* MessageManager.clearTimeout has cleared its timer.
C38_AutoHide ==
    /\ [][AutoHidden => (mm.timers \ mm'.timers = {mm.id} /\ mm.type # "error")]_vars
    /\ \A m \in 1..MaxMessages :
          AutoHideDue(m) ~> (mm.hidden \/ mm.id # m \/ mm.timers = {})

\* the second message, shown while the timer of the first was pending, has
\* been hidden by its own timer
C38_Witness ==
    /\ mm.id = 2
    /\ mm.hidden
    /\ mm.messageTimeout = 2
    /\ mm.timers = {}
    /\ AutoHides(mm.type, mm.duration)

\* C39: at most one interval timer of the session monitoring is active, and
\* a monitoring callback fetches the profile only while the profile section
\* is on display.
C39_OneMonitor ==
    /\ ActiveIntervals <= 1
    /\ am.tick.sent => am.tick.shown = "profile"

====
